---- MODULE Spec2Model ----
(***************************************************************************)
(* gzap: the zap Logger and Recovery middlewares for gin.                  *)
(*                                                                         *)
(* The repository holds two revisions of package gzap: the one with the    *)
(* skip-body predicates and the level selector (src/unnamed/part_000,      *)
(* build "current") and src/gzap.go (build "legacy").  Both are modelled;  *)
(* the variable build says which one is installed.                         *)
(*                                                                         *)
(* Strings whose content the code inspects or compares (bodies, the        *)
(* placeholders, error texts) are sequences of one-character strings.      *)
(***************************************************************************)
EXTENDS Integers, Sequences, FiniteSets, TLC

VARIABLES build, opts, cfg, rcfg, handlers, scenario, ctx, afterPanic

vars == <<build, opts, cfg, rcfg, handlers, scenario, ctx, afterPanic>>

(***************************************************************************)
(* Bounds                                                                  *)
(***************************************************************************)
MaxSlots == 2
MaxWrites == 2
MaxErrors == 2

Slots == 1..MaxSlots

(***************************************************************************)
(* Text                                                                    *)
(***************************************************************************)
SkipRequestBodyText == <<"s","k","i","p"," ","r","e","q","u","e","s","t"," ","b","o","d","y">>
LargerRequestBodyText == <<"l","a","r","g","e","r"," ","r","e","q","u","e","s","t"," ","b","o","d","y">>
SkipResponseBodyText == <<"s","k","i","p"," ","r","e","s","p","o","n","s","e"," ","b","o","d","y">>
LargerResponseBodyText == <<"l","a","r","g","e","r"," ","r","e","s","p","o","n","s","e"," ","b","o","d","y">>
LegacyLargerReqBodyText == <<"i","g","n","o","r","e"," ","l","a","r","g","e","r"," ","r","e","q"," ","b","o","d","y">>
LegacyLargerResponseBodyText == <<"i","g","n","o","r","e"," ","l","a","r","g","e","r"," ","r","e","s","p","o","n","s","e"," ","b","o","d","y">>
BrokenPipeText == <<"b","r","o","k","e","n"," ","p","i","p","e">>
ConnResetText == <<"c","o","n","n","e","c","t","i","o","n"," ","r","e","s","e","t"," ","b","y"," ","p","e","e","r">>

Upper == <<"A","B","C","D","E","F","G","H","I","J","K","L","M","N","O","P","Q","R","S","T","U","V","W","X","Y","Z">>
Lower == <<"a","b","c","d","e","f","g","h","i","j","k","l","m","n","o","p","q","r","s","t","u","v","w","x","y","z">>

\* strings.ToLower, one character
ToLowerChar(ch) ==
    IF \E i \in 1..26 : Upper[i] = ch
    THEN Lower[CHOOSE i \in 1..26 : Upper[i] = ch]
    ELSE ch

\* strings.ToLower
ToLower(s) == [i \in 1..Len(s) |-> ToLowerChar(s[i])]

\* strings.Contains
Contains(s, sub) ==
    \E k \in 0..(Len(s) - Len(sub)) : SubSeq(s, k + 1, k + Len(sub)) = sub

(***************************************************************************)
(* Config and the options                                                  *)
(***************************************************************************)
FieldStatus == 0
FieldMethod == 1
FieldPath == 2
FieldRoute == 3
FieldQuery == 4
FieldIP == 5
FieldUserAgent == 6
FieldLatency == 7
FieldRequestBody == 8
FieldResponseBody == 9
fieldMaxLen == 10

DefaultFieldNames ==
    [i \in 0..(fieldMaxLen - 1) |->
        <<"status", "method", "path", "route", "query", "ip", "user-agent",
          "latency", "requestBody", "responseBody">>[i + 1]]

\* newConfig() of the current revision
newConfig ==
    [customFields |-> <<>>,
     skipLogging |-> "false",
     skipRequestBody |-> "false",
     skipResponseBody |-> "false",
     useLoggerLevel |-> "useLoggerLevel",
     enableBody |-> FALSE,
     limit |-> 0,
     field |-> DefaultFieldNames]

\* newConfig() of the legacy revision: no body predicates, no level selector.
\* The two predicate slots and the selector are carried at fixed values so
\* that both revisions share one record shape.
LegacyNewConfig ==
    [customFields |-> <<>>,
     skipLogging |-> "false",
     skipRequestBody |-> "false",
     skipResponseBody |-> "false",
     useLoggerLevel |-> "none",
     enableBody |-> FALSE,
     limit |-> 0,
     field |-> DefaultFieldNames]

\* An Option value: op names the constructor, the other fields its argument.
\* f = "nil" is the nil func.
Opt(op, b, n, s, fs) == [op |-> op, b |-> b, n |-> n, s |-> s, fs |-> fs]
OptCustomFields(fs) == Opt("WithCustomFields", FALSE, 0, "", fs)
OptSkipLogging(f) == Opt("WithSkipLogging", FALSE, 0, f, <<>>)
OptEnableBody(b) == Opt("WithEnableBody", b, 0, "", <<>>)
OptBodyLimit(limit) == Opt("WithBodyLimit", FALSE, limit, "", <<>>)
OptSkipRequestBody(f) == Opt("WithSkipRequestBody", FALSE, 0, f, <<>>)
OptSkipResponseBody(f) == Opt("WithSkipResponseBody", FALSE, 0, f, <<>>)
OptUseLoggerLevel(f) == Opt("WithUseLoggerLevel", FALSE, 0, f, <<>>)
OptFieldName(index, name) == Opt("WithFieldName", FALSE, index, name, <<>>)

WithCustomFields(c, fields) == [c EXCEPT !.customFields = fields]

WithSkipLogging(c, f) == IF f # "nil" THEN [c EXCEPT !.skipLogging = f] ELSE c

WithEnableBody(c, b) == [c EXCEPT !.enableBody = b]

WithBodyLimit(c, limit) == [c EXCEPT !.limit = limit]

WithSkipRequestBody(c, f) == IF f # "nil" THEN [c EXCEPT !.skipRequestBody = f] ELSE c

WithSkipResponseBody(c, f) == IF f # "nil" THEN [c EXCEPT !.skipResponseBody = f] ELSE c

WithUseLoggerLevel(c, f) == IF f # "nil" THEN [c EXCEPT !.useLoggerLevel = f] ELSE c

\* WithFieldName of the current revision
WithFieldName(c, index, name) ==
    IF index > 0 /\ index < fieldMaxLen /\ name # ""
    THEN [c EXCEPT !.field[index] = name]
    ELSE c

\* WithFieldName of the legacy revision: the store is unguarded (an index
\* outside the array panics while the middleware is being built, so only
\* indices inside it reach a running server).
LegacyWithFieldName(c, index, name) == [c EXCEPT !.field[index] = name]

\* opt(&cfg)
ApplyOption(b, c, o) ==
    CASE o.op = "WithCustomFields" -> WithCustomFields(c, o.fs)
      [] o.op = "WithSkipLogging" -> WithSkipLogging(c, o.s)
      [] o.op = "WithEnableBody" -> WithEnableBody(c, o.b)
      [] o.op = "WithBodyLimit" -> WithBodyLimit(c, o.n)
      [] o.op = "WithSkipRequestBody" -> WithSkipRequestBody(c, o.s)
      [] o.op = "WithSkipResponseBody" -> WithSkipResponseBody(c, o.s)
      [] o.op = "WithUseLoggerLevel" -> WithUseLoggerLevel(c, o.s)
      [] o.op = "WithFieldName" ->
            IF b = "legacy" THEN LegacyWithFieldName(c, o.n, o.s)
            ELSE WithFieldName(c, o.n, o.s)

\* for _, opt := range opts { opt(&cfg) }
RECURSIVE ApplyOptions(_, _, _)
ApplyOptions(b, c, os) ==
    IF os = <<>> THEN c
    ELSE ApplyOptions(b, ApplyOption(b, c, Head(os)), Tail(os))

\* The Config the Logger constructor closes over
LoggerConfig(b, os) ==
    ApplyOptions(b, IF b = "legacy" THEN LegacyNewConfig ELSE newConfig, os)

\* The Config the Recovery constructor closes over: the options, then the
\* stack producer appended to the custom fields when stack is set.
RecoveryConfig(b, stack, os) ==
    LET c == ApplyOptions(b, IF b = "legacy" THEN LegacyNewConfig ELSE newConfig, os)
    IN IF stack THEN [c EXCEPT !.customFields = Append(c.customFields, "stack")]
       ELSE c

(***************************************************************************)
(* Values                                                                  *)
(***************************************************************************)
\* A Go value used as an error or as a panic value.  type is its dynamic
\* type, inner the dynamic type of the error it wraps (OpError.Err), text
\* what Error() of the wrapped error returns (the value itself for a string).
Value(type, inner, text) == [type |-> type, inner |-> inner, text |-> text]
NoValue == Value("none", "", <<>>)

ErrBoom == Value("errorString", "", <<"b","o","o","m">>)
ErrUnexpectedEOF == Value("errorString", "", <<"u","n","e","x","p","e","c","t","e","d"," ","E","O","F">>)

\* The request as it arrives, never modified (c.Request.URL and headers)
Request(path, query, contentType, body, bodyFails) ==
    [method |-> "GET", path |-> path, query |-> query, contentType |-> contentType,
     body |-> body, bodyFails |-> bodyFails]

NoRequest == Request("", "", "", <<>>, FALSE)

\* c.Request.Body: data still to be read from position pos, or a reader
\* whose Read fails
Reader(data, pos, fails) == [data |-> data, pos |-> pos, fails |-> fails]

\* A frame of the goroutine's call stack: the handler h, where it stands,
\* and the locals Logger's closure captures for its deferred function.
Frame(h) == [h |-> h, pc |-> "enter", reqBody |-> <<>>, path |-> "", query |-> ""]

abortIndex == 63

\* gin's Context for one request, with the response writer's fields inlined,
\* and the observations made while it is handled (records, downstreamRead,
\* handlerRuns, selectorCalls, producerCalls, escaped, recovered).  peerGone
\* says that the client has closed the connection, so that writes to it fail.
\* passed lists the data of the calls made on c.Writer, forwarded the data of
\* the calls that reached gin's own writer, underlying the results gin's own
\* writer returned and results the results the callers of c.Writer got.
NewContext ==
    [pc |-> "idle",
     req |-> NoRequest,
     body |-> Reader(<<>>, 0, FALSE),
     wrapped |-> FALSE,
     dupBody |-> <<>>,
     status |-> 200,
     size |-> -1,
     out |-> <<>>,
     written |-> <<>>,
     errors |-> <<>>,
     index |-> -1,
     stack |-> <<>>,
     panic |-> NoValue,
     raised |-> NoValue,
     statusAtPanic |-> 0,
     sizeAtPanic |-> -1,
     escaped |-> FALSE,
     recovered |-> FALSE,
     records |-> <<>>,
     handlerRuns |-> 0,
     downstreamRead |-> <<>>,
     didRead |-> FALSE,
     didStatus |-> FALSE,
     nWrites |-> 0,
     selectorCalls |-> 0,
     readFailed |-> FALSE,
     peerGone |-> FALSE,
     passed |-> <<>>,
     forwarded |-> <<>>,
     underlying |-> <<>>,
     results |-> <<>>]

Top(c) == c.stack[Len(c.stack)]
Pop(c) == [c EXCEPT !.stack = SubSeq(c.stack, 1, Len(c.stack) - 1)]
SetTop(c, f) == [c EXCEPT !.stack[Len(c.stack)] = f]
Panicking(c) == c.panic.type # "none"

(***************************************************************************)
(* gin: the handler chain                                                  *)
(***************************************************************************)
\* The loop of c.Next() once c.index has been advanced: run the handler at
\* c.index if there is one, else Next returns to the frame that called it.
\* When that is the engine (the stack is empty) the chain is over.
NextLoop(c, hs) ==
    IF c.index < Len(hs)
    THEN [c EXCEPT !.stack = Append(c.stack, Frame(hs[c.index + 1])),
                   !.handlerRuns = IF hs[c.index + 1] = "Handler" THEN c.handlerRuns + 1
                                   ELSE c.handlerRuns]
    ELSE IF c.stack = <<>>
         THEN [c EXCEPT !.pc = "done"]
         ELSE SetTop(c, [Top(c) EXCEPT !.pc = "exit"])

\* c.Next() called by the top frame
Next_(c, hs) ==
    NextLoop([SetTop(c, [Top(c) EXCEPT !.pc = "next"]) EXCEPT !.index = c.index + 1], hs)

\* The top frame returns normally: back in the loop of the c.Next() that
\* called it, c.index++
Return(c, hs) ==
    LET d == Pop(c) IN NextLoop([d EXCEPT !.index = d.index + 1], hs)

\* The top frame is left by a panic its deferred functions did not recover:
\* the panic goes on into the caller, and out of the chain when there is none.
Unwind(c) ==
    LET d == Pop(c)
    IN IF d.stack = <<>> THEN [d EXCEPT !.escaped = TRUE, !.pc = "crashed"] ELSE d

\* c.Abort()
Abort(c) == [c EXCEPT !.index = abortIndex]

\* c.Error(err)
Error(c, err) == [c EXCEPT !.errors = Append(c.errors, err)]

(***************************************************************************)
(* gin: the response writer, and gzap's bodyWriter around it               *)
(***************************************************************************)
Written(c) == c.size # -1

\* responseWriter.WriteHeader(code).  Once the header is out, gin releases
\* differ on whether the code is still recorded: late says which.
WriteHeader(c, code, late) ==
    IF code > 0 /\ c.status # code
    THEN IF Written(c) /\ ~late THEN c ELSE [c EXCEPT !.status = code]
    ELSE c

\* responseWriter.WriteHeaderNow()
WriteHeaderNow(c) ==
    IF ~Written(c) THEN [c EXCEPT !.size = 0, !.written = <<c.status>>] ELSE c

\* The (n, err) pair a write returns
WriteResult(n, err) == [n |-> n, err |-> err]

\* responseWriter.Write / WriteString: the header is written, the bytes go to
\* the client and are counted; on a closed connection none does and the
\* error is returned
ResponseWriterWrite(c, data) ==
    LET d == WriteHeaderNow(c)
        n == IF d.peerGone THEN 0 ELSE Len(data)
    IN [d EXCEPT !.size = d.size + n,
                 !.out = d.out \o SubSeq(data, 1, n),
                 !.forwarded = Append(d.forwarded, data),
                 !.underlying = Append(d.underlying, WriteResult(n, d.peerGone))]

\* return <the result of the embedded writer>
Returned(c) == [c EXCEPT !.results = Append(c.results, c.underlying[Len(c.underlying)])]

\* bodyWriter.Write
Write(c, b) == Returned(ResponseWriterWrite([c EXCEPT !.dupBody = c.dupBody \o b], b))

\* A bodyWriter that leaves WriteString to the embedded writer
WriteStringNotCaptured(c, s) == Returned(ResponseWriterWrite(c, s))

\* bodyWriter.WriteString
WriteString(c, s) == Returned(ResponseWriterWrite([c EXCEPT !.dupBody = c.dupBody \o s], s))

\* c.Writer.Write / c.Writer.WriteString, whatever c.Writer is
WriterWrite(c, data, asString) ==
    LET p == [c EXCEPT !.passed = Append(c.passed, data)]
    IN IF p.wrapped
       THEN IF asString THEN WriteString(p, data) ELSE Write(p, data)
       ELSE Returned(ResponseWriterWrite(p, data))

\* c.Status(code)
Status(c, code, late) == WriteHeader(c, code, late)

\* c.String(code, text): the status, then the text through c.Writer
String(c, code, text, late) == WriterWrite(Status(c, code, late), text, FALSE)

\* c.AbortWithStatus(code)
AbortWithStatus(c, code, late) == Abort(WriteHeaderNow(Status(c, code, late)))

\* io.ReadAll(c.Request.Body): what is left of the data, or the error of a
\* reader that fails
ReadAll(rd) ==
    [data |-> IF rd.fails THEN <<>> ELSE SubSeq(rd.data, rd.pos + 1, Len(rd.data)),
     err |-> rd.fails,
     rest |-> [rd EXCEPT !.pos = Len(rd.data)]]

(***************************************************************************)
(* Predicates, level selectors, field producers                            *)
(***************************************************************************)
\* mime.ParseMediaType on the Content-Type values the requests carry
ParseMediaType(v) ==
    CASE v = "application/json" -> [d |-> "application/json", boundary |-> FALSE, err |-> FALSE]
      [] v = "multipart/form-data; boundary=x" -> [d |-> "multipart/form-data", boundary |-> TRUE, err |-> FALSE]
      [] v = "Multipart/Mixed; boundary=x" -> [d |-> "multipart/mixed", boundary |-> TRUE, err |-> FALSE]
      [] v = "multipart/form-data" -> [d |-> "multipart/form-data", boundary |-> FALSE, err |-> FALSE]
      [] v = "multipart/related; boundary=x" -> [d |-> "multipart/related", boundary |-> TRUE, err |-> FALSE]
      [] OTHER -> [d |-> "", boundary |-> FALSE, err |-> TRUE]

\* skipRequestBody(c), the built-in multipart rule
skipRequestBody(c) ==
    LET m == ParseMediaType(c.req.contentType)
    IN IF m.err \/ ~(m.d = "multipart/form-data" \/ m.d = "multipart/mixed")
       THEN FALSE
       ELSE m.boundary

\* skipResponseBody(c), the built-in rule
skipResponseBody(c) == FALSE

\* A caller's predicate f applied to c
Pred(f, c) ==
    CASE f = "false" -> FALSE
      [] f = "true" -> TRUE
      [] f = "pathIsSkipLogging" -> c.req.path = "/skiplogging"

\* A default selector that takes every 5xx for an error and every 4xx for a
\* warning
useLoggerLevelWholeClass(c) ==
    IF c.status >= 500 /\ c.status <= 599 THEN "error"
    ELSE IF c.status >= 400 /\ c.status <= 499 THEN "warn"
    ELSE "info"

\* useLoggerLevel(c), the default level selector
useLoggerLevel(c) ==
    IF c.status >= 500 /\ c.status <= 511 THEN "error"
    ELSE IF c.status >= 400 /\ c.status <= 451 THEN "warn"
    ELSE "info"

\* A level selector f applied to c
Level(f, c) ==
    CASE f = "useLoggerLevel" -> useLoggerLevel(c)
      [] f = "debug" -> "debug"

\* A custom field producer applied to c: an immutable field (String), a
\* field computed from the request, Recovery's stack producer
Produce(p, c) ==
    CASE p = "app" -> [key |-> "app", val |-> "example"]
      [] p = "custom field1" -> [key |-> "custom field1", val |-> c.req.path]
      [] p = "stack" -> [key |-> "stack", val |-> "debug.Stack()"]

\* The producers invoked last to first
CustomFieldsReversed(ps, c) == [i \in 1..Len(ps) |-> Produce(ps[Len(ps) + 1 - i], c)]

\* for _, fieldFunc := range cfg.customFields: the fields in configured order
CustomFields(ps, c) == [i \in 1..Len(ps) |-> Produce(ps[i], c)]

ErrorFields(c) == [i \in 1..Len(c.errors) |-> [key |-> "error", val |-> c.errors[i]]]

\* A log record: who emitted it and in which branch (src, kind), then what
\* zap is given: the level, the message and the fields in order.
Record(src, kind, level, msg, fields) ==
    [src |-> src, kind |-> kind, level |-> level, msg |-> msg, fields |-> fields]

Log(c, rec) == [c EXCEPT !.records = Append(c.records, rec)]

(***************************************************************************)
(* Logger                                                                  *)
(***************************************************************************)
\* A stored copy that is replaced only when the limit is exceeded
LimitedStrict(cf, data, placeholder) ==
    IF cf.limit > 0 /\ Len(data) > cf.limit THEN placeholder ELSE data

\* The stored copy of a body of the current revision: the placeholder when
\* a positive limit is reached
Limited(cf, data, placeholder) ==
    IF cf.limit > 0 /\ Len(data) >= cf.limit THEN placeholder ELSE data

\* Logger's handler without the c.Abort() of the read failure
LoggerEnterNoAbort(c, hs, cf, late) ==
    LET w == IF cf.enableBody THEN [c EXCEPT !.wrapped = TRUE] ELSE c
        hasSkipRequestBody == skipRequestBody(w) \/ Pred(cf.skipRequestBody, w)
        rd == ReadAll(w.body)
        locals(reqBody) ==
            [Top(w) EXCEPT !.reqBody = reqBody, !.path = w.req.path, !.query = w.req.query]
    IN IF cf.enableBody /\ ~hasSkipRequestBody
       THEN IF rd.err
            THEN Return(String([w EXCEPT !.readFailed = TRUE], 500,
                               ErrUnexpectedEOF.text, late), hs)
            ELSE Next_(SetTop([w EXCEPT !.body = Reader(rd.data, 0, FALSE)],
                              locals(Limited(cf, rd.data, LargerRequestBodyText))), hs)
       ELSE Next_(SetTop(w, locals(SkipRequestBodyText)), hs)

\* Logger's handler giving downstream the stored copy instead of the bytes
\* it read
LoggerEnterRestoreStored(c, hs, cf, late) ==
    LET w == IF cf.enableBody THEN [c EXCEPT !.wrapped = TRUE] ELSE c
        hasSkipRequestBody == skipRequestBody(w) \/ Pred(cf.skipRequestBody, w)
        rd == ReadAll(w.body)
        locals(reqBody) ==
            [Top(w) EXCEPT !.reqBody = reqBody, !.path = w.req.path, !.query = w.req.query]
        stored == Limited(cf, rd.data, LargerRequestBodyText)
    IN IF cf.enableBody /\ ~hasSkipRequestBody
       THEN IF rd.err
            THEN Return(Abort(String([w EXCEPT !.readFailed = TRUE], 500,
                                     ErrUnexpectedEOF.text, late)), hs)
            ELSE Next_(SetTop([w EXCEPT !.body = Reader(stored, 0, FALSE)],
                              locals(stored)), hs)
       ELSE Next_(SetTop(w, locals(SkipRequestBodyText)), hs)

\* Logger's handler up to and including its c.Next(), current revision
LoggerEnter(c, hs, cf, late) ==
    LET w == IF cf.enableBody THEN [c EXCEPT !.wrapped = TRUE] ELSE c
        hasSkipRequestBody == skipRequestBody(w) \/ Pred(cf.skipRequestBody, w)
        rd == ReadAll(w.body)
        locals(reqBody) ==
            [Top(w) EXCEPT !.reqBody = reqBody, !.path = w.req.path, !.query = w.req.query]
    IN IF cf.enableBody /\ ~hasSkipRequestBody
       THEN IF rd.err
            THEN Return(Abort(String([w EXCEPT !.readFailed = TRUE], 500,
                                     ErrUnexpectedEOF.text, late)), hs)
            ELSE Next_(SetTop([w EXCEPT !.body = Reader(rd.data, 0, FALSE)],
                              locals(Limited(cf, rd.data, LargerRequestBodyText))), hs)
       ELSE Next_(SetTop(w, locals(SkipRequestBodyText)), hs)

\* Logger's handler up to and including its c.Next(), legacy revision
LegacyLoggerEnter(c, hs, cf, late) ==
    LET w == IF cf.enableBody THEN [c EXCEPT !.wrapped = TRUE] ELSE c
        rd == ReadAll(w.body)
        locals(reqBody) ==
            [Top(w) EXCEPT !.reqBody = reqBody, !.path = w.req.path, !.query = w.req.query]
    IN IF cf.enableBody
       THEN IF rd.err
            THEN Return(Abort(String([w EXCEPT !.readFailed = TRUE], 500,
                                     ErrUnexpectedEOF.text, late)), hs)
            ELSE Next_(SetTop([w EXCEPT !.body = Reader(rd.data, 0, FALSE)],
                              locals(Limited(cf, rd.data, LegacyLargerReqBodyText))), hs)
       ELSE Next_(SetTop(w, locals(<<>>)), hs)

\* The eight fields every summary starts with
BaseFields(c, cf) ==
    <<[key |-> cf.field[FieldStatus], val |-> c.status],
      [key |-> cf.field[FieldMethod], val |-> c.req.method],
      [key |-> cf.field[FieldPath], val |-> Top(c).path],
      [key |-> cf.field[FieldRoute], val |-> c.req.path],
      [key |-> cf.field[FieldQuery], val |-> Top(c).query],
      [key |-> cf.field[FieldIP], val |-> "192.0.2.1"],
      [key |-> cf.field[FieldUserAgent], val |-> "curl"],
      [key |-> cf.field[FieldLatency], val |-> "time.Since(start)"]>>

\* Body fields appended whether or not body capture is enabled
BodyFieldsAlways(c, cf) ==
    LET hasSkipResponseBody == skipResponseBody(c) \/ Pred(cf.skipResponseBody, c)
        respBody == IF hasSkipResponseBody THEN SkipResponseBodyText
                    ELSE Limited(cf, c.dupBody, LargerResponseBodyText)
    IN <<[key |-> cf.field[FieldRequestBody], val |-> Top(c).reqBody],
         [key |-> cf.field[FieldResponseBody], val |-> respBody]>>

\* The two body fields of the current revision
BodyFields(c, cf) ==
    LET hasSkipResponseBody == skipResponseBody(c) \/ Pred(cf.skipResponseBody, c)
        respBody == IF hasSkipResponseBody THEN SkipResponseBodyText
                    ELSE Limited(cf, c.dupBody, LargerResponseBodyText)
    IN IF cf.enableBody
       THEN <<[key |-> cf.field[FieldRequestBody], val |-> Top(c).reqBody],
              [key |-> cf.field[FieldResponseBody], val |-> respBody]>>
       ELSE <<>>

\* The record Logger's deferred function builds, current revision
Summary(c, cf) ==
    Record("Logger", "summary",
           IF Len(c.errors) > 0 THEN "error" ELSE Level(cf.useLoggerLevel, c),
           "logging",
           BaseFields(c, cf) \o BodyFields(c, cf) \o CustomFields(cf.customFields, c)
               \o ErrorFields(c))

\* The summary written after c.Next() has returned instead of in a deferred
\* function: a panic passes it by
LoggerLogAfterNext(c, cf) ==
    IF Panicking(c) \/ Pred(cf.skipLogging, c) THEN c
    ELSE Log([c EXCEPT !.selectorCalls =
                  IF Len(c.errors) > 0 THEN c.selectorCalls ELSE c.selectorCalls + 1],
             Summary(c, cf))

\* Logger's deferred function, current revision
LoggerLog(c, cf) ==
    IF Pred(cf.skipLogging, c) THEN c
    ELSE Log([c EXCEPT !.selectorCalls =
                  IF Len(c.errors) > 0 THEN c.selectorCalls ELSE c.selectorCalls + 1],
             Summary(c, cf))

\* The two body fields of the legacy revision
LegacyBodyFields(c, cf) ==
    IF cf.enableBody
    THEN <<[key |-> cf.field[FieldRequestBody], val |-> Top(c).reqBody],
           [key |-> cf.field[FieldResponseBody],
            val |-> Limited(cf, c.dupBody, LegacyLargerResponseBodyText)]>>
    ELSE <<>>

\* logger.Error(e) for each e of c.Errors.Errors()
RECURSIVE LegacyLogErrors(_, _)
LegacyLogErrors(c, es) ==
    IF es = <<>> THEN c
    ELSE LegacyLogErrors(Log(c, Record("Logger", "error", "error", Head(es).text, <<>>)),
                         Tail(es))

\* Logger's deferred function, legacy revision
LegacyLoggerLog(c, cf) ==
    IF Pred(cf.skipLogging, c) THEN c
    ELSE IF Len(c.errors) > 0
         THEN LegacyLogErrors(c, c.errors)
         ELSE Log(c, Record("Logger", "summary", "info", "logging",
                            BaseFields(c, cf) \o LegacyBodyFields(c, cf)
                                \o CustomFields(cf.customFields, c)))

\* The deferred function has run: the handler returns, or the panic that
\* made it run goes on
LeaveFrame(c, hs) == IF Panicking(c) THEN Unwind(c) ELSE Return(c, hs)

(***************************************************************************)
(* Recovery                                                                *)
(***************************************************************************)
\* The broken-pipe test comparing the text as it is
IsBrokenPipeCaseSensitive(err) ==
    /\ err.type = "OpError"
    /\ err.inner = "SyscallError"
    /\ \/ Contains(err.text, BrokenPipeText)
       \/ Contains(err.text, ConnResetText)

\* The broken-pipe test on the recovered value
IsBrokenPipe(err) ==
    /\ err.type = "OpError"
    /\ err.inner = "SyscallError"
    /\ \/ Contains(ToLower(err.text), BrokenPipeText)
       \/ Contains(ToLower(err.text), ConnResetText)

\* httputil.DumpRequest(c.Request, false)
DumpRequest(c) == <<c.req.method, c.req.path, c.req.query>>

\* The two fields both of Recovery's records start with
PanicFields(c, err) ==
    <<[key |-> "error", val |-> err], [key |-> "request", val |-> DumpRequest(c)]>>

\* recover() has stopped the panic
Recovered(c) == [c EXCEPT !.panic = NoValue, !.recovered = TRUE]

\* The broken-pipe branch
RecoverBrokenPipe(c, err) ==
    Abort(Error(Log(Recovered(c),
                    Record("Recovery", "brokenPipe", "error", c.req.path, PanicFields(c, err))),
                err))

\* The branch of every other panic
RecoverPanic(c, rc, err, late) ==
    AbortWithStatus(
        Log(Recovered(c),
            Record("Recovery", "panic", "error", "recovery from panic",
                   PanicFields(c, err) \o CustomFields(rc.customFields, c))),
        500, late)

\* A deferred function that asserts err.(error) before anything else: a
\* value that is no error panics again inside it
RecoverErrorsOnly(c, rc, err, late) ==
    IF err.type = "string" THEN c
    ELSE IF IsBrokenPipe(err) THEN RecoverBrokenPipe(c, err)
    ELSE RecoverPanic(c, rc, err, late)

\* The deferred function of Recovery once recover() has returned err
Recover(c, rc, err, late) ==
    IF IsBrokenPipe(err) THEN RecoverBrokenPipe(c, err)
    ELSE RecoverPanic(c, rc, err, late)

(***************************************************************************)
(* What is installed, and what arrives                                     *)
(***************************************************************************)
PanicBrokenPipe ==
    Value("OpError", "SyscallError", <<"w","r","i","t","e",":"," ","b","r","o","k","e","n"," ","p","i","p","e">>)
PanicConnReset ==
    Value("OpError", "SyscallError", <<"r","e","a","d",":"," ","C","o","n","n","e","c","t","i","o","n"," ","R","e","s","e","t"," ","B","y"," ","P","e","e","r">>)
PanicConnRefused ==
    Value("OpError", "SyscallError", <<"c","o","n","n","e","c","t",":"," ","c","o","n","n","e","c","t","i","o","n"," ","r","e","f","u","s","e","d">>)
PanicOpErrorOther == Value("OpError", "errorString", BrokenPipeText)
PanicBareSyscallError == Value("SyscallError", "Errno", BrokenPipeText)
PanicString == Value("string", "", <<"o","o","p","s">>)

\* The option lists given to Logger, by scenario
CoreOptions ==
    {OptCustomFields(<<"app", "custom field1">>), OptSkipLogging("pathIsSkipLogging"),
     OptSkipLogging("nil"), OptUseLoggerLevel("debug"), OptUseLoggerLevel("nil")}

CoreOptionLists ==
    {<<>>} \cup {<<o>> : o \in CoreOptions}
           \cup {<<OptCustomFields(<<"app", "custom field1">>), o>> :
                    o \in {OptSkipLogging("pathIsSkipLogging"), OptUseLoggerLevel("debug")}}

BodyOptions ==
    {OptEnableBody(FALSE), OptBodyLimit(-1), OptBodyLimit(1), OptSkipRequestBody("true"),
     OptSkipRequestBody("nil"), OptSkipResponseBody("true"), OptSkipResponseBody("nil")}

BodyOptionLists ==
    {<<OptEnableBody(TRUE)>>} \cup {<<o>> : o \in BodyOptions}
        \cup {<<OptEnableBody(TRUE), o>> : o \in BodyOptions}
        \cup {<<OptBodyLimit(1), OptEnableBody(TRUE)>>,
              <<OptEnableBody(TRUE), OptSkipLogging("true")>>}

FieldOptions ==
    {OptFieldName(i, name) : i \in -1..fieldMaxLen, name \in {"", "httpStatusCode"}}

FieldOptionLists ==
    {<<o>> : o \in FieldOptions}
        \cup {<<OptEnableBody(TRUE), o>> : o \in FieldOptions}
        \cup {<<OptFieldName(FieldMethod, "verb"), o>> : o \in FieldOptions}

OptionLists(sc) ==
    CASE sc = "core" -> CoreOptionLists
      [] sc = "recovery" -> {<<>>, <<OptCustomFields(<<"app">>)>>}
      [] sc = "body" -> BodyOptionLists
      [] sc = "fields" -> FieldOptionLists
      [] sc = "writer" -> {<<OptEnableBody(TRUE)>>, <<OptEnableBody(TRUE), OptBodyLimit(1)>>}
      [] sc = "concurrent" -> {<<OptEnableBody(TRUE)>>}

\* Recovery's stack flag and option list, by scenario
RecoveryChoices(sc) ==
    IF sc = "recovery"
    THEN {<<TRUE, <<>>>>, <<FALSE, <<OptCustomFields(<<"app", "custom field1">>)>>>>,
          <<TRUE, <<OptCustomFields(<<"custom field1">>)>>>>}
    ELSE {<<FALSE, <<>>>>}

\* The two installation orders
Chains == {<<"Logger", "Recovery", "Handler">>, <<"Recovery", "Logger", "Handler">>}

\* The requests that arrive, by scenario
Paths(sc) == IF sc = "core" THEN {"/ping", "/skiplogging"} ELSE {"/ping"}

Bodies(sc) ==
    IF sc = "body" THEN {<<>>, <<"a">>, <<"a","b">>} ELSE {<<"a">>}

ContentTypes(sc) ==
    IF sc = "body"
    THEN {"application/json", "multipart/form-data; boundary=x", "multipart/form-data",
          "Multipart/Mixed; boundary=x", "multipart/related; boundary=x", ""}
    ELSE {"application/json"}

BodyFails(sc) == IF sc \in {"body", "writer"} THEN BOOLEAN ELSE {FALSE}

\* The requests that arrive.  Those that are served at the same time differ
\* in path, query and body.
Requests(sc) ==
    IF sc = "concurrent"
    THEN {Request("/ping", "a=1", "application/json", <<"a">>, FALSE),
          Request("/pong", "b=2", "application/json", <<"b">>, FALSE)}
    ELSE {Request(path, "", contentType, body, fails) :
             path \in Paths(sc), contentType \in ContentTypes(sc),
             body \in Bodies(sc), fails \in BodyFails(sc)}

\* Whether the client closes the connection before the response is written
PeerGone(sc) == IF sc = "writer" THEN BOOLEAN ELSE {FALSE}

\* What the application's handler may do, by scenario
StatusCodes(sc) ==
    CASE sc = "core" -> {399, 400, 451, 452, 499, 500, 511, 512}
      [] sc \in {"recovery", "writer"} -> {404}
      [] OTHER -> {}

Chunks(sc) ==
    CASE sc \in {"body", "concurrent"} -> {<<"x">>, <<"y">>}
      [] sc = "writer" -> {<<"x">>, <<"y", "z">>}
      [] OTHER -> {<<"x">>}

ErrorsAllowed(sc) == IF sc \in {"core", "recovery", "writer"} THEN MaxErrors ELSE 0

ReadAllowed(sc) == sc \in {"body", "writer"}

PanicValues(sc) ==
    CASE sc = "recovery" -> {PanicBrokenPipe, PanicConnReset, PanicConnRefused,
                             PanicOpErrorOther, PanicBareSyscallError, ErrBoom, PanicString}
      [] sc = "core" -> {PanicBrokenPipe, PanicString}
      [] sc = "concurrent" -> {}
      [] OTHER -> {PanicString}

Scenarios == {"core", "recovery", "body", "fields"}

(***************************************************************************)
(* The state machine                                                       *)
(***************************************************************************)
InitBuild(b, scs) ==
    /\ build = b
    /\ scenario \in scs
    /\ opts \in OptionLists(scenario)
    /\ cfg = LoggerConfig(b, opts)
    /\ \E rc \in RecoveryChoices(scenario) : rcfg = RecoveryConfig(b, rc[1], rc[2])
    /\ handlers \in Chains
    /\ ctx = [r \in Slots |-> NewContext]
    /\ afterPanic = FALSE

Init == InitBuild("current", Scenarios)

\* The options the legacy revision does not have never reach its Logger
LegacyInit ==
    /\ InitBuild("legacy", Scenarios)
    /\ \A i \in 1..Len(opts) :
          /\ opts[i].op \notin {"WithSkipRequestBody", "WithSkipResponseBody", "WithUseLoggerLevel"}
          /\ opts[i].op = "WithFieldName" => opts[i].n \in 0..(fieldMaxLen - 1)

Running(r, h, pcs) ==
    /\ ctx[r].pc = "running"
    /\ ctx[r].stack # <<>>
    /\ Top(ctx[r]).h = h
    /\ Top(ctx[r]).pc \in pcs

Step(r, c) ==
    /\ ctx' = [ctx EXCEPT ![r] = c]
    /\ UNCHANGED <<build, opts, cfg, rcfg, handlers, scenario, afterPanic>>

\* The engine takes a request and starts the chain: c.reset(), c.Next().
\* Requests are served one at a time on slot 1; only the concurrent
\* scenario uses the other slots.
Arrive(r) ==
    /\ ctx[r].pc = "idle"
    /\ r = 1 \/ scenario = "concurrent"
    /\ \E req \in Requests(scenario), gone \in PeerGone(scenario) :
          ctx' = [ctx EXCEPT ![r] =
                    NextLoop([NewContext EXCEPT
                                 !.pc = "running",
                                 !.req = req,
                                 !.body = Reader(req.body, 0, req.bodyFails),
                                 !.peerGone = gone,
                                 !.index = 0], handlers)]
    /\ UNCHANGED <<build, opts, cfg, rcfg, handlers, scenario, afterPanic>>

\* Logger's handler runs up to its c.Next()
LoggerPre(r) ==
    /\ Running(r, "Logger", {"enter"})
    /\ \E late \in BOOLEAN :
          Step(r, IF build = "legacy" THEN LegacyLoggerEnter(ctx[r], handlers, cfg, late)
                  ELSE LoggerEnter(ctx[r], handlers, cfg, late))

\* What all the requests in flight have written, had Logger one
\* strings.Builder for all of them
RECURSIVE SharedBuilder(_)
SharedBuilder(n) == IF n = 0 THEN <<>> ELSE SharedBuilder(n - 1) \o ctx[n].dupBody

\* Logger's deferred function with the builder allocated at installation
LoggerDeferSharedBuilder(r) ==
    /\ Running(r, "Logger", IF Panicking(ctx[r]) THEN {"next"} ELSE {"exit"})
    /\ Step(r, [LeaveFrame(LoggerLog([ctx[r] EXCEPT !.dupBody = SharedBuilder(MaxSlots)], cfg),
                           handlers)
                   EXCEPT !.dupBody = ctx[r].dupBody])

\* Logger's deferred function runs: c.Next() has returned or has panicked
LoggerDefer(r) ==
    /\ Running(r, "Logger", IF Panicking(ctx[r]) THEN {"next"} ELSE {"exit"})
    /\ Step(r, LeaveFrame(IF build = "legacy" THEN LegacyLoggerLog(ctx[r], cfg)
                          ELSE LoggerLog(ctx[r], cfg), handlers))

\* Recovery's handler: defer, c.Next()
RecoveryPre(r) ==
    /\ Running(r, "Recovery", {"enter"})
    /\ Step(r, Next_(ctx[r], handlers))

\* Recovery's deferred function runs
RecoveryDefer(r) ==
    /\ Running(r, "Recovery", IF Panicking(ctx[r]) THEN {"next"} ELSE {"exit"})
    /\ \E late \in BOOLEAN :
          Step(r, LeaveFrame(IF Panicking(ctx[r])
                             THEN Recover(ctx[r], rcfg, ctx[r].panic, late)
                             ELSE ctx[r], handlers))

\* The application's handler writes to the response
HandlerWrite(r) ==
    /\ Running(r, "Handler", {"enter"})
    /\ ctx[r].nWrites < MaxWrites
    /\ \E data \in Chunks(scenario), asString \in BOOLEAN :
          Step(r, [WriterWrite(ctx[r], data, asString) EXCEPT !.nWrites = @ + 1])

\* The application's handler sets the status: c.Status(code)
HandlerStatus(r) ==
    /\ Running(r, "Handler", {"enter"})
    /\ ~ctx[r].didStatus
    /\ \E code \in StatusCodes(scenario), late \in BOOLEAN :
          Step(r, [Status(ctx[r], code, late) EXCEPT !.didStatus = TRUE])

\* The application's handler records an error: c.Error(err)
HandlerError(r) ==
    /\ Running(r, "Handler", {"enter"})
    /\ Len(ctx[r].errors) < ErrorsAllowed(scenario)
    /\ Step(r, Error(ctx[r], ErrBoom))

\* The application's handler reads the request body to its end
HandlerRead(r) ==
    /\ Running(r, "Handler", {"enter"})
    /\ ReadAllowed(scenario)
    /\ ~ctx[r].didRead
    /\ LET rd == ReadAll(ctx[r].body)
       IN Step(r, [ctx[r] EXCEPT !.didRead = TRUE,
                                 !.downstreamRead = rd.data,
                                 !.body = IF rd.err THEN @ ELSE rd.rest])

\* The application's handler panics
HandlerPanic(r) ==
    /\ Running(r, "Handler", {"enter"})
    /\ \E v \in PanicValues(scenario) :
          Step(r, Unwind([ctx[r] EXCEPT !.panic = v, !.raised = v,
                                        !.statusAtPanic = ctx[r].status,
                                        !.sizeAtPanic = ctx[r].size]))

\* The application's handler returns
HandlerReturn(r) ==
    /\ Running(r, "Handler", {"enter"})
    /\ Step(r, Return(ctx[r], handlers))

\* The engine is done with the request: it sends the header if nothing has
\* sent it yet, and the context goes back to the pool
Finish(r) ==
    /\ ctx[r].pc = "done"
    /\ ctx' = [ctx EXCEPT ![r] = NewContext]
    /\ afterPanic' = (afterPanic \/ ctx[r].recovered)
    /\ UNCHANGED <<build, opts, cfg, rcfg, handlers, scenario>>

Next ==
    \E r \in Slots :
        \/ Arrive(r)
        \/ LoggerPre(r)
        \/ LoggerDefer(r)
        \/ RecoveryPre(r)
        \/ RecoveryDefer(r)
        \/ HandlerWrite(r)
        \/ HandlerStatus(r)
        \/ HandlerError(r)
        \/ HandlerRead(r)
        \/ HandlerPanic(r)
        \/ HandlerReturn(r)
        \/ Finish(r)

Spec == Init /\ [][Next]_vars

LegacySpec == LegacyInit /\ [][Next]_vars

\* Requests whose responses go through the bodyWriter, to clients that may
\* have closed the connection
WriterSpec == InitBuild("current", {"writer"}) /\ [][Next]_vars

\* Requests served one at a time, and requests served at the same time by
\* one installed Logger and Recovery, one goroutine and one Context each,
\* their steps interleaved
ConcurrentSpec == InitBuild("current", {"writer", "concurrent"}) /\ [][Next]_vars

TypeOK == \A r \in Slots : ctx[r].pc \in {"idle", "running", "done", "crashed"}

(***************************************************************************)
(* Properties                                                              *)
(***************************************************************************)
LoggerRecords(c) == SelectSeq(c.records, LAMBDA rec : rec.src = "Logger")
Summaries(c) == SelectSeq(c.records, LAMBDA rec : rec.kind = "summary")
RecoveryRecords(c) == SelectSeq(c.records, LAMBDA rec : rec.src = "Recovery")
Aborted(c) == c.index >= abortIndex
Panicked(c) == c.raised.type # "none"

\* C1: once the chain Logger started is over, Logger has emitted exactly one
\* summary record, and nothing else, when the skip-logging predicate is false
\* for the request, and no record when it is true, however many errors the
\* handlers recorded.
C1_OneSummaryPerRequest ==
    \A r \in Slots :
        (ctx[r].pc = "done" /\ ~ctx[r].readFailed) =>
            LET n == IF Pred(cfg.skipLogging, ctx[r]) THEN 0 ELSE 1
            IN /\ Len(Summaries(ctx[r])) = n
               /\ Len(LoggerRecords(ctx[r])) = n

C1_Witness ==
    \E r \in Slots :
        /\ ctx[r].pc = "done"
        /\ Len(ctx[r].errors) = 2
        /\ Len(Summaries(ctx[r])) = 1
        /\ ~Panicked(ctx[r])


\* C2: a panic of a handler downstream of Recovery is stopped in Recovery,
\* whatever its value and whatever the custom fields: it never leaves the
\* chain, the request ends with the panic recovered and one record of it,
\* and a request that arrives after a recovered panic runs its handler.
C2_PanicStopsInRecovery ==
    \A r \in Slots :
        /\ ~ctx[r].escaped
        /\ ctx[r].pc # "crashed"
        /\ ctx[r].pc = "done" => ~Panicking(ctx[r])
        /\ (ctx[r].pc = "done" /\ Panicked(ctx[r])) =>
               ctx[r].recovered /\ Len(RecoveryRecords(ctx[r])) = 1
        /\ (afterPanic /\ ctx[r].pc = "done" /\ ~ctx[r].readFailed) => ctx[r].handlerRuns = 1

C2_Witness ==
    \E r \in Slots :
        /\ afterPanic
        /\ ctx[r].pc = "done"
        /\ ctx[r].raised = PanicString
        /\ ctx[r].recovered
        /\ Len(rcfg.customFields) = 2

\* The panic values C3 calls broken pipe
ClaimedBrokenPipe(v) == v \in {PanicBrokenPipe, PanicConnReset}

\* C3: once Recovery has recovered a broken-pipe panic, the status and the
\* response are as they were when the panic was raised, the panic value is
\* the last request error and the chain is aborted; once it has recovered
\* any other panic raised before anything was written, the status is 500,
\* 500 is what was sent, and the chain is aborted.
C3_BrokenPipeLeavesStatusAlone ==
    \A r \in Slots :
        ctx[r].recovered =>
            IF ClaimedBrokenPipe(ctx[r].raised)
            THEN /\ ctx[r].status = ctx[r].statusAtPanic
                 /\ ctx[r].size = ctx[r].sizeAtPanic
                 /\ ctx[r].sizeAtPanic = -1 => ctx[r].written = <<>>
                 /\ Len(ctx[r].errors) > 0
                 /\ ctx[r].errors[Len(ctx[r].errors)] = ctx[r].raised
                 /\ Aborted(ctx[r])
            ELSE ctx[r].sizeAtPanic = -1 =>
                     /\ ctx[r].status = 500
                     /\ ctx[r].written = <<500>>
                     /\ Aborted(ctx[r])

C3_Witness ==
    \E r \in Slots :
        /\ ctx[r].recovered
        /\ ctx[r].raised = PanicConnReset
        /\ ctx[r].sizeAtPanic = -1
        /\ ctx[r].status = 404
        /\ ctx[r].written = <<>>
        /\ afterPanic

\* The Content-Type values whose body Logger leaves alone
ClaimedMultipart(v) == v \in {"multipart/form-data; boundary=x", "Multipart/Mixed; boundary=x"}

\* The request body is one Logger reads
ClaimedBodyRead(c) ==
    /\ cfg.enableBody
    /\ ~ClaimedMultipart(c.req.contentType)
    /\ cfg.skipRequestBody # "true"

\* C4: when Logger is to read the body and the read fails, no downstream
\* handler runs and Logger emits nothing, and the request ends with status
\* 500 and the chain aborted.
C4_ReadFailureAborts ==
    \A r \in Slots :
        (ClaimedBodyRead(ctx[r]) /\ ctx[r].req.bodyFails) =>
            /\ ctx[r].handlerRuns = 0
            /\ LoggerRecords(ctx[r]) = <<>>
            /\ ctx[r].pc = "done" =>
                   /\ ctx[r].status = 500
                   /\ Aborted(ctx[r])
                   /\ ctx[r].out = ErrUnexpectedEOF.text

C4_Witness ==
    \E r \in Slots :
        /\ ClaimedBodyRead(ctx[r])
        /\ ctx[r].req.bodyFails
        /\ ctx[r].pc = "done"
        /\ ctx[r].status = 500
        /\ handlers[1] = "Recovery"


\* What a summary says: its status field, and whether it carries errors
RecStatus(rec) == rec.fields[1].val
RecErrors(rec) == Cardinality({i \in 1..Len(rec.fields) : rec.fields[i].key = "error"})

\* The default levels as C5 states them, and as the code documents them
ClaimedDefaultLevel(status) ==
    IF status >= 500 /\ status <= 599 THEN "error"
    ELSE IF status >= 400 /\ status <= 499 THEN "warn"
    ELSE "info"

DocumentedDefaultLevel(status) ==
    IF status >= 500 /\ status <= 511 THEN "error"
    ELSE IF status >= 400 /\ status <= 451 THEN "warn"
    ELSE "info"

\* The level of every summary under a table of default levels; the selector
\* is called once for a summary without errors and not at all otherwise
LevelRule(default(_)) ==
    \A r \in Slots :
        /\ \A i \in 1..Len(Summaries(ctx[r])) :
              LET rec == Summaries(ctx[r])[i]
              IN rec.level = IF RecErrors(rec) > 0 THEN "error"
                             ELSE IF cfg.useLoggerLevel = "debug" THEN "debug"
                             ELSE default(RecStatus(rec))
        /\ ctx[r].selectorCalls =
              Cardinality({i \in 1..Len(Summaries(ctx[r])) : RecErrors(Summaries(ctx[r])[i]) = 0})

\* C5 as stated: the summary is at error level when an error was recorded,
\* else at the level the caller's selector returns, and with the default
\* selector at error level for every 5xx status, warn for every 4xx, info
\* otherwise.
C5_LevelEvery5xx == LevelRule(ClaimedDefaultLevel)

\* C5 amended: with the default selector the summary is at error level for
\* the statuses 500 to 511, at warn level for 400 to 451 and at info level
\* for every other status; the rest as stated.
C5_LevelDocumentedRanges == LevelRule(DocumentedDefaultLevel)

C5_Witness ==
    \E r \in Slots :
        /\ Len(Summaries(ctx[r])) = 1
        /\ RecStatus(Summaries(ctx[r])[1]) = 512
        /\ Summaries(ctx[r])[1].level = "info"
        /\ cfg.useLoggerLevel = "useLoggerLevel"

\* The fields of rec from position off + 1 on are what the producers ps
\* return for c, one per producer in order
CarriesCustom(rec, off, ps, c) ==
    /\ Len(rec.fields) >= off + Len(ps)
    /\ \A k \in 1..Len(ps) : rec.fields[off + k] = Produce(ps[k], c)

BodyFieldCount == IF cfg.enableBody THEN 2 ELSE 0

\* C6 as stated: every record of Logger and every record of Recovery, in
\* the broken-pipe branch as in the other, carries the field of each
\* configured producer, in configured order.
C6_CustomFieldsEverywhere ==
    \A r \in Slots :
        \A i \in 1..Len(ctx[r].records) :
            LET rec == ctx[r].records[i]
            IN IF rec.src = "Logger"
               THEN CarriesCustom(rec, 8 + BodyFieldCount, cfg.customFields, ctx[r])
               ELSE CarriesCustom(rec, 2, rcfg.customFields, ctx[r])

\* C6 amended: every record of Logger and the record of Recovery's
\* generic-panic branch carry the field of each configured producer, in
\* configured order; the record of the broken-pipe branch carries the error
\* and the request and nothing else.
C6_CustomFieldsButBrokenPipe ==
    \A r \in Slots :
        \A i \in 1..Len(ctx[r].records) :
            LET rec == ctx[r].records[i]
            IN CASE rec.src = "Logger" ->
                       CarriesCustom(rec, 8 + BodyFieldCount, cfg.customFields, ctx[r])
                 [] rec.kind = "panic" ->
                       /\ CarriesCustom(rec, 2, rcfg.customFields, ctx[r])
                       /\ Len(rec.fields) = 2 + Len(rcfg.customFields)
                 [] rec.kind = "brokenPipe" ->
                       /\ Len(rec.fields) = 2
                       /\ rec.fields[1].key = "error"
                       /\ rec.fields[2].key = "request"

C6_Witness ==
    \E r \in Slots :
        /\ ctx[r].pc = "done"
        /\ rcfg.customFields = <<"app", "custom field1">>
        /\ cfg.customFields = <<"app">>
        /\ Len(Summaries(ctx[r])) = 1
        /\ Len(RecoveryRecords(ctx[r])) = 1
        /\ RecoveryRecords(ctx[r])[1].kind = "panic"

\* The witness of the branch the amendment is about
C6_BrokenPipeWitness ==
    \E r \in Slots :
        /\ rcfg.customFields = <<"app", "custom field1">>
        /\ Len(RecoveryRecords(ctx[r])) = 1
        /\ RecoveryRecords(ctx[r])[1].kind = "brokenPipe"


\* C7: with body capture on, the request-body field of a summary whose
\* request body Logger read is the body itself exactly when the limit is not
\* positive or the body is shorter than the limit, and the placeholder
\* otherwise; the response-body field, unless the response predicate skips
\* it, is decided the same way from the bytes written to the response alone.
C7_BodyFieldsByLimit ==
    \A r \in Slots :
        \A i \in 1..Len(Summaries(ctx[r])) :
            LET rec == Summaries(ctx[r])[i]
                reqBody == ctx[r].req.body
                respBody == ctx[r].out
                fits(data) == cfg.limit <= 0 \/ Len(data) < cfg.limit
            IN cfg.enableBody =>
                /\ ClaimedBodyRead(ctx[r]) =>
                      /\ rec.fields[9].val =
                            IF fits(reqBody) THEN reqBody ELSE LargerRequestBodyText
                      /\ (rec.fields[9].val = reqBody) <=> fits(reqBody)
                /\ cfg.skipResponseBody # "true" =>
                      /\ rec.fields[10].val =
                            IF fits(respBody) THEN respBody ELSE LargerResponseBodyText
                      /\ (rec.fields[10].val = respBody) <=> fits(respBody)

\* The request body is below the limit and logged, the response reaches the
\* limit exactly and is replaced
C7_Witness ==
    \E r \in Slots :
        /\ Len(Summaries(ctx[r])) = 1
        /\ cfg.enableBody
        /\ cfg.limit = 1
        /\ ctx[r].req.body = <<>>
        /\ ctx[r].out = <<"y">>
        /\ Summaries(ctx[r])[1].fields[9].val = <<>>
        /\ Summaries(ctx[r])[1].fields[10].val = LargerResponseBodyText

\* C8: with body capture off, a record of Logger has the eight base fields,
\* the custom fields and the errors and nothing else: no field under the
\* request-body or the response-body label.
C8_NoBodyFieldsWhenDisabled ==
    \A r \in Slots :
        ~cfg.enableBody =>
            \A i \in 1..Len(LoggerRecords(ctx[r])) :
                LET rec == LoggerRecords(ctx[r])[i]
                IN /\ Len(rec.fields) = 8 + Len(cfg.customFields) + RecErrors(rec)
                   /\ \A k \in 1..Len(rec.fields) :
                         rec.fields[k].key \notin
                             {cfg.field[FieldRequestBody], cfg.field[FieldResponseBody]}

C8_Witness ==
    \E r \in Slots :
        /\ opts = <<OptEnableBody(TRUE), OptEnableBody(FALSE)>>
        /\ Len(LoggerRecords(ctx[r])) = 1
        /\ ctx[r].req.body = <<"a","b">>
        /\ ctx[r].out # <<>>

\* C9 as stated: after WithFieldName(i, name) for any of the ten indices,
\* the field at i in Logger's record is called name and the other labels
\* are what they were before the option.
C9_EveryLabelRenameable ==
    \A r \in Slots :
        \A j \in 1..Len(Summaries(ctx[r])) :
            (/\ opts # <<>>
             /\ opts[Len(opts)].op = "WithFieldName"
             /\ opts[Len(opts)].n \in FieldStatus..FieldResponseBody
             /\ opts[Len(opts)].s # "") =>
                LET last == opts[Len(opts)]
                    before == LoggerConfig(build, SubSeq(opts, 1, Len(opts) - 1))
                    rec == Summaries(ctx[r])[j]
                IN \A i \in FieldStatus..FieldResponseBody :
                      (i < FieldRequestBody \/ cfg.enableBody) =>
                          rec.fields[i + 1].key = IF i = last.n THEN last.s ELSE before.field[i]

RECURSIVE Concat(_)
Concat(chunks) == IF chunks = <<>> THEN <<>> ELSE chunks[1] \o Concat(Tail(chunks))

\* C11: whatever Write and WriteString calls were made on the bodyWriter, its
\* buffer is the concatenation of their data in call order, however long and
\* whatever the limit; each call's data reached the embedded writer unchanged,
\* and each caller got the result the embedded writer returned.
C11_CaptureAndForward ==
    \A r \in Slots :
        LET c == ctx[r]
        IN c.wrapped =>
              /\ c.dupBody = Concat(c.passed)
              /\ c.forwarded = c.passed
              /\ c.results = c.underlying
              /\ Len(c.results) = Len(c.passed)
              /\ ~c.peerGone => c.out = Concat(c.passed)

\* Two calls of different lengths whose total is over the limit, on a closed
\* connection, so that the results are errors
C11_Witness ==
    \E r \in Slots :
        LET c == ctx[r]
        IN /\ c.wrapped
           /\ cfg.limit = 1
           /\ c.passed = << <<"y", "z">>, <<"x">> >>
           /\ c.dupBody = <<"y", "z", "x">>
           /\ c.peerGone
           /\ c.results = <<WriteResult(0, TRUE), WriteResult(0, TRUE)>>

(***************************************************************************)
(* C12: requests served at the same time                                   *)
(***************************************************************************)
\* The summary record is made of the request's own path and query and, where
\* bodies are logged, of its own body and of the bytes its own handler wrote,
\* or of the placeholders
OwnSummary(c, rec) ==
    /\ rec.fields[FieldPath + 1].val = c.req.path
    /\ rec.fields[FieldQuery + 1].val = c.req.query
    /\ cfg.enableBody =>
          /\ rec.fields[FieldRequestBody + 1].val
                 \in {c.req.body, SkipRequestBodyText, LargerRequestBodyText}
          /\ rec.fields[FieldResponseBody + 1].val
                 \in {Concat(c.passed), SkipResponseBodyText, LargerResponseBodyText}

C12_Isolation ==
    \A r \in Slots :
        \A i \in DOMAIN ctx[r].records :
            ctx[r].records[i].kind = "summary" => OwnSummary(ctx[r], ctx[r].records[i])

\* C12: when requests are served at the same time by one installed Logger,
\* however their steps interleave, the summary of each has its own path,
\* query, request body and response bytes and nothing of another request,
\* and no step changes the Config of Logger or of Recovery.
C12_RequestsIsolated ==
    /\ []C12_Isolation
    /\ [][cfg' = cfg /\ rcfg' = rcfg /\ opts' = opts]_vars

\* Two requests in flight together, which differ in path, query, body and
\* response, each with its summary emitted
C12_Witness ==
    /\ scenario = "concurrent"
    /\ ctx[1].pc = "done" /\ ctx[2].pc = "done"
    /\ ctx[1].req.path # ctx[2].req.path
    /\ ctx[1].req.query # ctx[2].req.query
    /\ ctx[1].req.body # ctx[2].req.body
    /\ ctx[1].passed = << <<"x">>, <<"y">> >>
    /\ ctx[2].passed = << <<"y">> >>
    /\ \A r \in {1, 2} : \E i \in DOMAIN ctx[r].records :
           /\ ctx[r].records[i].kind = "summary"
           /\ ctx[r].records[i].fields[FieldRequestBody + 1].val = ctx[r].req.body
           /\ ctx[r].records[i].fields[FieldResponseBody + 1].val = Concat(ctx[r].passed)

(***************************************************************************)
(* C13: a panic, in the two installation orders                            *)
(***************************************************************************)
\* The request's handler has panicked with a value Recovery does not take for
\* a broken pipe, before anything was written, and logging is not skipped
PlainPanic(c) ==
    /\ Panicked(c)
    /\ ~ClaimedBrokenPipe(c.raised)
    /\ c.sizeAtPanic = -1
    /\ ~Pred(cfg.skipLogging, c)

\* C13: for a handler that panics with a value that is not a broken pipe and
\* before any write, Logger emits its summary in both installation orders.
\* With Logger outside Recovery, Recovery's record and the 500 come first and
\* the summary reports 500.  With Recovery outside Logger, the summary is
\* emitted while the panic unwinds, before Recovery's record and the 500, and
\* reports the status as it was when the panic was raised.
C13_OrderOfEvents ==
    \A r \in Slots :
        LET c == ctx[r]
        IN PlainPanic(c) =>
              /\ (c.pc = "running" /\ Panicking(c)) =>
                     /\ RecoveryRecords(c) = <<>>
                     /\ c.status = c.statusAtPanic
                     /\ handlers[1] = "Logger" => Summaries(c) = <<>>
              /\ (c.pc = "running" /\ ~Panicking(c)) =>
                     /\ Len(RecoveryRecords(c)) = 1
                     /\ c.status = 500
              /\ c.pc = "done" =>
                     /\ Len(c.records) = 2
                     /\ IF handlers[1] = "Logger"
                        THEN /\ c.records[1].kind = "panic"
                             /\ c.records[2].kind = "summary"
                             /\ RecStatus(c.records[2]) = 500
                        ELSE /\ c.records[1].kind = "summary"
                             /\ c.records[2].kind = "panic"
                             /\ RecStatus(c.records[1]) = c.statusAtPanic
                             /\ c.status = 500

\* Recovery outside Logger, the handler has set 404 and panicked: the summary
\* came first and reports 404, the response is 500
C13_Witness ==
    \E r \in Slots :
        LET c == ctx[r]
        IN /\ handlers[1] = "Recovery"
           /\ PlainPanic(c)
           /\ c.pc = "done"
           /\ c.statusAtPanic = 404
           /\ c.records[1].kind = "summary"
           /\ RecStatus(c.records[1]) = 404
           /\ c.records[2].kind = "panic"
           /\ c.status = 500

\* Logger outside Recovery: Recovery's record came first and the summary
\* reports 500
C13_LoggerOutsideWitness ==
    \E r \in Slots :
        LET c == ctx[r]
        IN /\ handlers[1] = "Logger"
           /\ PlainPanic(c)
           /\ c.pc = "done"
           /\ c.statusAtPanic = 404
           /\ c.records[1].kind = "panic"
           /\ c.records[2].kind = "summary"
           /\ RecStatus(c.records[2]) = 500

====
